---- MODULE Spec2Model ----
(***************************************************************************)
(* Query routing and tool-resolution engine of the Yahoo Finance MCP       *)
(* bridge: mcp-http-bridge.js (the /analyze endpoint, tool discovery,      *)
(* sendToMCP, the bridge's symbol resolver), llm-query-processor.js (the   *)
(* LLM-backed classifier and its rule-based fallback) and the tool list    *)
(* of yahoo-finance-mcp/src/index.ts.                                      *)
(*                                                                         *)
(* Text is modelled as a record [pad, words]: words is the sequence of     *)
(* whitespace-separated tokens of the string and pad tells whether the     *)
(* string has leading or trailing whitespace.  Regular expressions and     *)
(* String.includes are evaluated token by token through the tables below.  *)
(* Confidence values are numbers in hundredths (0.8 is 80), or NaN.        *)
(*                                                                         *)
(* The process is followed from startMCPServer to the response of one      *)
(* /analyze request.  Two activities share the server's stdio: the request *)
(* handler and the discovery of the startup timer.  Every pending          *)
(* sendToMCP promise has its own onData listener on the one stdout, so a   *)
(* line with a result resolves all of them; the continuations of promises  *)
(* settled by one event run in the order the listeners were registered,    *)
(* before the next event is taken.                                         *)
(***************************************************************************)
EXTENDS Integers, Sequences, FiniteSets, TLC

\* ------------------------------------------------------------------ bounds
MaxQueryLen == 2
MaxErrorLines == 1
MaxLiveQueryLen == 1

\* ------------------------------------------------------------- vocabulary
\* Tokens a message is built from.
Words ==
  {"AAPL", "Apple", "palantir", "price", "top", "dividend"}

\* String.prototype.toLowerCase on one token.
ToLowerCase(w) ==
  CASE w = "AAPL" -> "aapl"
    [] w = "MSFT" -> "msft"
    [] w = "I" -> "i"
    [] w = "Apple" -> "apple"
    [] w = "Microsoft" -> "microsoft"
    [] w = "Ford" -> "ford"
    [] w = "Analyze" -> "analyze"
    [] w = "Compare" -> "compare"
    [] OTHER -> w

\* The substring of token w matched by /\b[A-Z]{1,5}\b/, "" when none.
UpperMatch(w) ==
  IF w \in {"AAPL", "MSFT", "I", "TSLA"} THEN w ELSE ""

\* The substring of token w matched by /\b[A-Z]{3,5}\b/, "" when none.
UpperMatch3(w) ==
  IF w \in {"AAPL", "MSFT", "TSLA"} THEN w ELSE ""

\* parseInt of the digits matched by /(\d+)/ in token w, -1 when none.
IntOf(w) ==
  CASE w = "5" -> 5
    [] w = "10" -> 10
    [] w = "05" -> 5
    [] OTHER -> -1

\* Token w matches [a-z]+ under the i flag.
IsAlpha(w) == IntOf(w) = -1

\* Number of characters of token w.
WordLen(w) ==
  CASE w \in {"I"} -> 1
    [] w \in {"5", "10", "05", "vs", "co"} -> 2
    [] w \in {"top", "inc", "for", "etf", "and"} -> 3
    [] w \in {"AAPL", "MSFT", "TSLA", "Ford", "find", "news", "corp",
              "bond"} -> 4
    [] w \in {"Apple", "price", "hello"} -> 5
    [] w \in {"search", "stocks", "market"} -> 6
    [] w \in {"compare", "analyst"} -> 7
    [] w \in {"palantir", "dividend", "trending"} -> 8
    [] w \in {"Microsoft", "technical"} -> 9
    [] OTHER -> 5

\* Keywords that are proper substrings of a lowercased token.
ProperSubstrings == {<<"stocks", "stock">>}

\* String.includes between one lowercased token and a one-word keyword.
TokenIncludes(lw, kw) == lw = kw \/ <<lw, kw>> \in ProperSubstrings

EmptyText == [pad |-> FALSE, words |-> <<>>]
Text(ws) == [pad |-> FALSE, words |-> ws]

\* String.prototype.trim: drops leading and trailing whitespace.
Trim(t) == [t EXCEPT !.pad = FALSE]

\* A string is falsy in JavaScript exactly when it is empty.
IsEmptyString(t) == t.words = <<>> /\ ~t.pad

\* The lowercased query includes the phrase kw (a sequence of one-word
\* keywords): the phrase's words occur in consecutive tokens.
Includes(t, kw) ==
  \E i \in 1..Len(t.words) :
    /\ i + Len(kw) - 1 <= Len(t.words)
    /\ \A k \in 1..Len(kw) :
         IF Len(kw) = 1
         THEN TokenIncludes(ToLowerCase(t.words[i]), kw[1])
         ELSE ToLowerCase(t.words[i + k - 1]) = kw[k]

\* The first of a set of token positions (where a pattern matches), 0 if
\* there is none.
FirstIndex(positions) ==
  IF positions = {} THEN 0
  ELSE CHOOSE i \in positions : \A j \in positions : i <= j

HasInt(w) == IntOf(w) # -1
HasUpper(w) == UpperMatch(w) # ""

\* FirstInt without the match: always the default.
FirstIntIgnored(t, d) == d

\* message.match(/(\d+)/) then parseInt, else the default d.
FirstInt(t, d) ==
  LET i == FirstIndex({k \in 1..Len(t.words) : HasInt(t.words[k])})
  IN IF i = 0 THEN d ELSE IntOf(t.words[i])

\* message.match(/\b([A-Z]{1,5})\b/): the first match, "" when none.
FirstUpper(t) ==
  LET i == FirstIndex({k \in 1..Len(t.words) : HasUpper(t.words[k])})
  IN IF i = 0 THEN "" ELSE UpperMatch(t.words[i])

\* ------------------------------------------------- tool arguments (JSON)
ParamNames == {"symbol", "count", "query", "type", "criteria", "sort"}

\* An arguments object: has lists the keys that are present; a key that is
\* absent holds the neutral value of its type.
EmptyArgs ==
  [has |-> {}, symbol |-> "", count |-> 0, query |-> EmptyText,
   type |-> "", criteria |-> "", sort |-> ""]

SymbolArgs(s) == [EmptyArgs EXCEPT !.has = {"symbol"}, !.symbol = s]
CountArgs(c) == [EmptyArgs EXCEPT !.has = {"count"}, !.count = c]
QueryArgs(q) == [EmptyArgs EXCEPT !.has = {"query"}, !.query = q]

\* !toolArgs[param]: the key is absent or holds a falsy value.
Falsy(args, p) ==
  \/ p \notin args.has
  \/ p = "symbol" /\ args.symbol = ""
  \/ p = "count" /\ args.count = 0
  \/ p = "query" /\ IsEmptyString(args.query)
  \/ p = "type" /\ args.type = ""
  \/ p = "criteria" /\ args.criteria = ""
  \/ p = "sort" /\ args.sort = ""

\* ---------------------------------------------------- protocol server
\* Names of the entries of the server's tools array, in declaration order.
ServerTools ==
  <<"get_quote", "get_historical_data", "search_symbols",
    "get_market_summary", "get_news", "get_recommendations",
    "get_financials", "get_options", "get_trending_stocks",
    "get_trending_etfs", "get_insights", "get_chart", "get_quote_summary",
    "get_fundamentals_timeseries", "get_trending_symbols", "get_screener",
    "get_autoc">>

ServerToolSet == {ServerTools[i] : i \in 1..Len(ServerTools)}

\* inputSchema.required of a tool; <<>> where the schema declares none
\* (toolInfo.inputSchema?.required || []).
Required(name) ==
  CASE name \in {"get_quote", "get_historical_data", "get_recommendations",
                 "get_options", "get_insights", "get_chart",
                 "get_quote_summary", "get_fundamentals_timeseries"}
         -> <<"symbol">>
    [] name = "search_symbols" -> <<"query">>
    [] name = "get_financials" -> <<"symbol", "type">>
    [] OTHER -> <<>>

\* Keys of inputSchema.properties of the tools /analyze uses as alternates.
Properties(name) ==
  CASE name = "search_symbols" -> {"query"}
    [] name = "get_trending_stocks" -> {"count"}
    [] OTHER -> ParamNames

\* Substrings tested by extractToolCapabilities that occur in a tool name.
NameIncludes(name, sub) ==
  \/ sub = "trending" /\ name \in {"get_trending_stocks", "get_trending_etfs",
                                    "get_trending_symbols"}
  \/ sub = "quote" /\ name \in {"get_quote", "get_quote_summary"}
  \/ sub = "historical" /\ name = "get_historical_data"
  \/ sub = "chart" /\ name = "get_chart"
  \/ sub = "insights" /\ name = "get_insights"
  \/ sub = "search" /\ name = "search_symbols"
  \/ sub = "symbols" /\ name \in {"search_symbols", "get_trending_symbols"}
  \/ sub = "etf" /\ name = "get_trending_etfs"
  \/ sub = "screener" /\ name = "get_screener"

\* Substrings tested by extractToolCapabilities that occur in the
\* description of a tool of the server.
DescriptionIncludes(name, sub) ==
  \/ sub = "trending" /\ name \in {"get_trending_stocks", "get_trending_etfs",
                                    "get_trending_symbols"}
  \/ sub = "quote" /\ name \in {"get_quote", "get_quote_summary"}
  \/ sub = "price" /\ name \in {"get_historical_data", "get_trending_stocks",
                                 "get_trending_etfs"}
  \/ sub = "historical" /\ name = "get_historical_data"
  \/ sub = "chart" /\ name = "get_chart"
  \/ sub = "insights" /\ name = "get_insights"
  \/ sub = "search" /\ name \in {"search_symbols", "get_autoc"}
  \/ sub = "symbols" /\ name \in {"search_symbols", "get_trending_symbols"}
  \/ sub = "etf" /\ name = "get_trending_etfs"
  \/ sub = "screener" /\ name = "get_screener"

\* The substrings extractToolCapabilities tests for.
TestedSubstrings ==
  {"trending", "quote", "price", "historical", "chart", "insights", "search",
   "etf", "gainer", "gainers", "screener", "symbols"}

\* CapabilitiesOf with the quote test before the trending test.
CapabilitiesQuoteFirst(name, description) ==
  [requiresSymbol |-> name \cap {"quote", "historical", "chart", "insights"}
                        # {},
   requiresCount |-> name \cap {"trending", "gainers", "screener"} # {},
   requiresQuery |-> name \cap {"search", "symbols"} # {},
   category |->
     IF "quote" \in name \/ "price" \in name THEN "quotes"
     ELSE IF "trending" \in name THEN "trending"
     ELSE IF "historical" \in name THEN "historical_chart"
     ELSE IF "chart" \in name THEN "chart_data"
     ELSE IF "insights" \in name THEN "insights"
     ELSE IF "search" \in name THEN "search"
     ELSE IF "etf" \in name THEN "etfs"
     ELSE IF "gainer" \in name THEN "gainers"
     ELSE "general"]

\* extractToolCapabilities for a tool given by the tested substrings its
\* lowercased name and its lowercased description include: the derived
\* capability tags.  The description only feeds the keywords, which the
\* bridge never reads.
CapabilitiesOf(name, description) ==
  [requiresSymbol |-> name \cap {"quote", "historical", "chart", "insights"}
                        # {},
   requiresCount |-> name \cap {"trending", "gainers", "screener"} # {},
   requiresQuery |-> name \cap {"search", "symbols"} # {},
   category |->
     IF "trending" \in name THEN "trending"
     ELSE IF "quote" \in name \/ "price" \in name THEN "quotes"
     ELSE IF "historical" \in name THEN "historical_chart"
     ELSE IF "chart" \in name THEN "chart_data"
     ELSE IF "insights" \in name THEN "insights"
     ELSE IF "search" \in name THEN "search"
     ELSE IF "etf" \in name THEN "etfs"
     ELSE IF "gainer" \in name THEN "gainers"
     ELSE "general"]

\* extractToolCapabilities(tool) for the tool of the server called name.
extractToolCapabilities(name) ==
  CapabilitiesOf({sub \in TestedSubstrings : NameIncludes(name, sub)},
                 {sub \in TestedSubstrings : DescriptionIncludes(name, sub)})

\* toolToWidgetMap[toolName] || 'general'.
toolToWidgetMap(name) ==
  CASE name = "get_insights" -> "insights"
    [] name = "get_chart" -> "chart_data"
    [] name = "get_quote_summary" -> "quote_summary"
    [] name \in {"get_fundamentals_timeseries", "fundamentals_analysis"}
         -> "fundamentals"
    [] name = "get_trending_symbols" -> "trending_symbols"
    [] name = "get_daily_gainers" -> "gainers"
    [] name = "get_screener" -> "screener"
    [] name = "get_autoc" -> "autoc"
    [] name = "get_trending_etfs" -> "etfs"
    [] name = "get_trending_stocks" -> "trending"
    [] name = "get_quote" -> "quotes"
    [] name = "get_historical_data" -> "historical_chart"
    [] name = "search_symbols" -> "search"
    [] OTHER -> "general"

\* Fallbacks with the primary tool at the head of its own alternates.
FallbacksSelf(tool) ==
  CASE tool = "get_screener"
         -> <<"get_screener", "get_trending_stocks", "search_symbols">>
    [] tool = "get_trending_stocks"
         -> <<"get_trending_stocks", "search_symbols">>
    [] tool = "get_quote" -> <<"get_quote", "search_symbols">>
    [] tool = "search_symbols" -> <<"search_symbols", "get_trending_stocks">>
    [] OTHER -> <<>>

\* Fallbacks with the first alternate of get_screener listed twice.
FallbacksRepeated(tool) ==
  CASE tool = "get_screener"
         -> <<"get_trending_stocks", "get_trending_stocks">>
    [] tool = "get_trending_stocks" -> <<"search_symbols">>
    [] tool = "get_quote" -> <<"search_symbols">>
    [] tool = "search_symbols" -> <<"get_trending_stocks">>
    [] OTHER -> <<>>

\* Fallbacks with the two alternates of get_screener in the other order.
FallbacksSwapped(tool) ==
  CASE tool = "get_screener" -> <<"search_symbols", "get_trending_stocks">>
    [] tool = "get_trending_stocks" -> <<"search_symbols">>
    [] tool = "get_quote" -> <<"search_symbols">>
    [] tool = "search_symbols" -> <<"get_trending_stocks">>
    [] OTHER -> <<>>

\* The alternates /analyze declares for the classified tool.
Fallbacks(tool) ==
  CASE tool = "get_screener" -> <<"get_trending_stocks", "search_symbols">>
    [] tool = "get_trending_stocks" -> <<"search_symbols">>
    [] tool = "get_quote" -> <<"search_symbols">>
    [] tool = "search_symbols" -> <<"get_trending_stocks">>
    [] OTHER -> <<>>

\* ------------------------------------------- bridge symbol resolver
\* Alternatives of the first pattern of extractCompanyNames, in order.
DirectNames ==
  << <<"apple">>, <<"microsoft">>, <<"google">>, <<"amazon">>, <<"tesla">>,
     <<"meta">>, <<"nvidia">>, <<"netflix">>, <<"amd">>, <<"intel">>,
     <<"palantir">>, <<"coinbase">>, <<"berkshire">>, <<"jpmorgan">>,
     <<"walmart">>, <<"coca", "cola">>, <<"pepsi">>, <<"disney">>,
     <<"nike">>, <<"home", "depot">>, <<"lowes">>, <<"target">>,
     <<"costco">>, <<"mcdonalds">>, <<"starbucks">>, <<"boeing">>,
     <<"general", "electric">>, <<"general", "motors">>,
     <<"ford", "motor">>, <<"ford">> >>

\* Suffix words of the second and third pattern.
CorpSuffixes ==
  {"inc", "corp", "corporation", "company", "co", "llc", "ltd", "limited"}
TechSuffixes ==
  {"technologies", "tech", "systems", "solutions", "group", "holdings",
   "industries"}

LowerWords(ws) == [i \in 1..Len(ws) |-> ToLowerCase(ws[i])]

\* Alternative n of the first pattern matches the tokens starting at i.
DirectAt(ws, i, n) ==
  /\ i + Len(DirectNames[n]) - 1 <= Len(ws)
  /\ LowerWords(SubSeq(ws, i, i + Len(DirectNames[n]) - 1)) = DirectNames[n]

\* matchAll of the first pattern from token i on: the matched texts.
DirectMatches(ws, i) ==
  LET from[k \in 1..(Len(ws) + 1)] ==
        IF k > Len(ws) THEN <<>>
        ELSE IF \E n \in 1..Len(DirectNames) : DirectAt(ws, k, n)
        THEN LET n == CHOOSE n \in 1..Len(DirectNames) :
                        /\ DirectAt(ws, k, n)
                        /\ \A m \in 1..(n - 1) : ~DirectAt(ws, k, m)
                 e == k + Len(DirectNames[n]) - 1
             IN <<SubSeq(ws, k, e)>> \o from[e + 1]
        ELSE from[k + 1]
  IN from[i]

\* Tokens i..e are a run of words that ends with a suffix word at e > i.
SuffixRun(ws, i, e, Suffixes) ==
  /\ i < e /\ e <= Len(ws)
  /\ \A k \in i..e : IsAlpha(ws[k])
  /\ ToLowerCase(ws[e]) \in Suffixes

\* matchAll of a suffix pattern from token i on: capture group 1 of each
\* match (the words before the suffix, taken greedily).
SuffixMatches(ws, i, Suffixes) ==
  LET from[k \in 1..(Len(ws) + 1)] ==
        IF k > Len(ws) THEN <<>>
        ELSE IF \E e \in (k + 1)..Len(ws) : SuffixRun(ws, k, e, Suffixes)
        THEN LET e == CHOOSE e \in (k + 1)..Len(ws) :
                        /\ SuffixRun(ws, k, e, Suffixes)
                        /\ \A f \in (e + 1)..Len(ws) :
                             ~SuffixRun(ws, k, f, Suffixes)
             IN <<SubSeq(ws, k, e - 1)>> \o from[e + 1]
        ELSE from[k + 1]
  IN from[i]

\* String length of a text of several tokens joined by single spaces.
RECURSIVE TextLen(_)
TextLen(ws) ==
  IF ws = <<>> THEN 0
  ELSE WordLen(Head(ws)) + (IF Len(ws) > 1 THEN 1 ELSE 0) + TextLen(Tail(ws))

\* [...new Set(list)]: first occurrences, in order.
Unique(list) ==
  LET upTo[k \in 0..Len(list)] ==
        IF k = 0 THEN <<>>
        ELSE IF \E j \in 1..(k - 1) : list[j] = list[k]
        THEN upTo[k - 1] ELSE Append(upTo[k - 1], list[k])
  IN upTo[Len(list)]

\* extractCompanyNames(message): the candidate company names, as token
\* sequences in their original case.
extractCompanyNames(message) ==
  CHOOSE names \in
    {Unique(SelectSeq(all, LAMBDA c : TextLen(c) > 2)) :
       all \in {DirectMatches(message.words, 1)
                  \o SuffixMatches(message.words, 1, CorpSuffixes)
                  \o SuffixMatches(message.words, 1, TechSuffixes)}} : TRUE

\* companyMap of the bridge's extractSymbol; "" stands for undefined.
companyMap(name) ==
  CASE name = <<"microsoft">> -> "MSFT"
    [] name = <<"apple">> -> "AAPL"
    [] name = <<"google">> -> "GOOGL"
    [] name = <<"amazon">> -> "AMZN"
    [] name = <<"tesla">> -> "TSLA"
    [] name = <<"meta">> -> "META"
    [] name = <<"nvidia">> -> "NVDA"
    [] name = <<"netflix">> -> "NFLX"
    [] name = <<"amd">> -> "AMD"
    [] name = <<"intel">> -> "INTC"
    [] name = <<"ford">> -> "F"
    [] name = <<"berkshire">> -> "BRK.B"
    [] name = <<"jpmorgan">> -> "JPM"
    [] name = <<"walmart">> -> "WMT"
    [] name = <<"disney">> -> "DIS"
    [] name = <<"nike">> -> "NKE"
    [] name = <<"boeing">> -> "BA"
    [] name = <<"general", "electric">> -> "GE"
    [] name = <<"general", "motors">> -> "GM"
    [] OTHER -> ""

\* SymbolOrSearch searching for the first company name before looking at
\* the uppercase match or the dictionary.
SymbolSearchFirst(up, companyNames, mapped) ==
  IF companyNames # <<>>
  THEN [symbol |-> "", search |-> TRUE, query |-> Text(companyNames[1])]
  ELSE [symbol |-> up, search |-> FALSE, query |-> EmptyText]

\* extractSymbol once the uppercase match up and the company names are
\* known.
SymbolOrSearch(up, companyNames, mapped) ==
  IF up # "" THEN [symbol |-> up, search |-> FALSE, query |-> EmptyText]
  ELSE IF companyNames = <<>>
  THEN [symbol |-> "", search |-> FALSE, query |-> EmptyText]
  ELSE IF mapped # ""
  THEN [symbol |-> mapped, search |-> FALSE, query |-> EmptyText]
  ELSE [symbol |-> "", search |-> TRUE, query |-> Text(companyNames[1])]

\* companyMap[companyNames[0].toLowerCase()], "" when there is no name.
MappedFirst(companyNames) ==
  IF companyNames = <<>> THEN "" ELSE companyMap(LowerWords(companyNames[1]))

\* The part of the bridge's extractSymbol that runs before its only await:
\* the symbol found ("" for null) and, when a lookup is needed, the search
\* query.
extractSymbol(message) ==
  CHOOSE found \in
    {SymbolOrSearch(FirstUpper(message), companyNames,
                    MappedFirst(companyNames)) :
       companyNames \in {extractCompanyNames(message)}} : TRUE

\* The symbol extractSymbol takes from the parsed search results: the first
\* EQUITY or STOCK entry, else the first entry; "" when there is none.
SymbolFromSearch(results) ==
  IF results = <<>> THEN ""
  ELSE IF \E i \in 1..Len(results) :
            results[i].quoteType \in {"EQUITY", "STOCK"}
  THEN results[CHOOSE i \in 1..Len(results) :
                 /\ results[i].quoteType \in {"EQUITY", "STOCK"}
                 /\ \A j \in 1..(i - 1) :
                      results[j].quoteType \notin {"EQUITY", "STOCK"}].symbol
  ELSE results[1].symbol

\* --------------------------------------------- LLMQueryProcessor
\* companyMap of LLMQueryProcessor.extractSymbol, in insertion order.
LLMCompanyMap ==
  << <<<<"apple">>, "AAPL">>, <<<<"microsoft">>, "MSFT">>,
     <<<<"google">>, "GOOGL">>, <<<<"amazon">>, "AMZN">>,
     <<<<"tesla">>, "TSLA">>, <<<<"meta">>, "META">>,
     <<<<"nvidia">>, "NVDA">>, <<<<"netflix">>, "NFLX">>,
     <<<<"ford">>, "F">>, <<<<"general", "motors">>, "GM">>,
     <<<<"berkshire">>, "BRK.A">>, <<<<"jpmorgan">>, "JPM">>,
     <<<<"bank", "of", "america">>, "BAC">>, <<<<"walmart">>, "WMT">>,
     <<<<"coca", "cola">>, "KO">>, <<<<"pepsi">>, "PEP">>,
     <<<<"mcdonalds">>, "MCD">>, <<<<"disney">>, "DIS">>,
     <<<<"adobe">>, "ADBE">>, <<<<"salesforce">>, "CRM">> >>

\* companyMap of the comparison rule of fallbackProcessing, in order.
CompareCompanyMap ==
  << <<<<"apple">>, "AAPL">>, <<<<"microsoft">>, "MSFT">>,
     <<<<"google">>, "GOOGL">>, <<<<"amazon">>, "AMZN">>,
     <<<<"tesla">>, "TSLA">>, <<<<"meta">>, "META">>,
     <<<<"nvidia">>, "NVDA">>, <<<<"netflix">>, "NFLX">>,
     <<<<"uber">>, "UBER">>, <<<<"spotify">>, "SPOT">> >>

\* The symbols of the entries of map whose company name the query includes.
RECURSIVE CompaniesIn(_, _, _)
CompaniesIn(t, map, i) ==
  IF i > Len(map) THEN <<>>
  ELSE (IF Includes(t, map[i][1]) THEN <<map[i][2]>> ELSE <<>>)
         \o CompaniesIn(t, map, i + 1)

\* UpperMatches3 finding nothing.
UpperMatchesNone(ws) == <<>>

\* userQuery.match(/\b[A-Z]{3,5}\b/g): every match, in order.
RECURSIVE UpperMatches3(_)
UpperMatches3(ws) ==
  IF ws = <<>> THEN <<>>
  ELSE (IF UpperMatch3(Head(ws)) # "" THEN <<UpperMatch3(Head(ws))>> ELSE <<>>)
         \o UpperMatches3(Tail(ws))

\* LLMQueryProcessor.extractSymbol(query).
LLMExtractSymbol(query) ==
  LET up == FirstUpper(query)
      named == CompaniesIn(query, LLMCompanyMap, 1)
  IN IF up # "" THEN up
     ELSE IF named # <<>> THEN named[1]
     ELSE "AAPL"

\* A JavaScript number: a finite value in hundredths, or NaN.
Number(n) == [nan |-> FALSE, n |-> n]
NaN == [nan |-> TRUE, n |-> 0]

Classification(tool, parameters, text, symbols, confidence, source) ==
  [tool |-> tool, parameters |-> parameters,
   reasoning |-> [text |-> text, symbols |-> symbols],
   confidence |-> confidence, source |-> source]

\* fallbackProcessing with the default rule alone.
fallbackProcessingDefault(userQuery) ==
  Classification("get_trending_stocks", CountArgs(FirstInt(userQuery, 5)),
                 "default", <<>>, Number(60), "enhanced_fallback")

\* LLMQueryProcessor.fallbackProcessing(userQuery).
fallbackProcessing(userQuery) ==
  LET has(kw) == Includes(userQuery, kw)
      count == FirstInt(userQuery, 5)
      uniqueSymbols ==
        Unique(CompaniesIn(userQuery, CompareCompanyMap, 1)
                 \o UpperMatches3(userQuery.words))
      firstSymbol == IF uniqueSymbols = <<>> THEN "AAPL" ELSE uniqueSymbols[1]
      sym == SymbolArgs(LLMExtractSymbol(userQuery))
      F(tool, parameters, text, confidence) ==
        Classification(tool, parameters, text, <<>>, Number(confidence),
                       "enhanced_fallback")
  IN IF \/ has(<<"compare">>) \/ has(<<"vs">>) \/ has(<<"versus">>)
        \/ has(<<"comparison">>) \/ has(<<"side", "by", "side">>)
     THEN Classification("get_quote", SymbolArgs(firstSymbol), "comparison",
                         uniqueSymbols, Number(85), "enhanced_fallback")
     ELSE IF \/ has(<<"top">>) \/ has(<<"best">>) \/ has(<<"highest">>)
             \/ has(<<"most">>) \/ has(<<"list">>) \/ has(<<"show", "me">>)
     THEN IF has(<<"dividend">>)
          THEN F("get_screener",
                 [EmptyArgs EXCEPT !.has = {"criteria", "count", "sort"},
                                   !.criteria = "dividend_yield",
                                   !.count = count,
                                   !.sort = "dividend_yield_desc"],
                 "dividend", 90)
          ELSE IF \/ has(<<"market", "cap">>) \/ has(<<"marketcap">>)
                  \/ has(<<"largest">>)
          THEN F("get_trending_stocks", CountArgs(count), "market cap", 80)
          ELSE IF \/ has(<<"performing">>) \/ has(<<"gaining">>)
                  \/ has(<<"winning">>)
          THEN F("get_trending_stocks", CountArgs(count), "performing", 80)
          ELSE F("get_trending_stocks", CountArgs(count), "top", 70)
     ELSE IF \/ has(<<"quote">>) \/ has(<<"price">>) \/ has(<<"stock">>)
             \/ has(<<"current">>) \/ has(<<"latest">>)
     THEN F("get_quote", sym, "quote", 80)
     ELSE IF \/ has(<<"historical">>) \/ has(<<"chart">>) \/ has(<<"history">>)
             \/ has(<<"past">>) \/ has(<<"performance">>)
     THEN F("get_historical_data", sym, "historical", 80)
     ELSE IF \/ has(<<"trending">>) \/ has(<<"top">>) \/ has(<<"popular">>)
             \/ has(<<"most", "active">>) \/ has(<<"hot">>)
     THEN F("get_trending_stocks", CountArgs(count), "trending", 80)
     ELSE IF \/ has(<<"reit", "etf">>) \/ has(<<"real", "estate", "etf">>)
             \/ has(<<"real", "estate", "investment", "trust">>)
             \/ has(<<"reit", "fund">>)
     THEN F("search_symbols",
            QueryArgs(Text(<<"REIT", "ETF", "real", "estate">>)), "reit", 95)
     ELSE IF \/ has(<<"bond", "etf">>) \/ has(<<"bond", "fund">>)
             \/ has(<<"fixed", "income", "etf">>) \/ has(<<"treasury", "etf">>)
     THEN F("search_symbols",
            QueryArgs(Text(<<"bond", "ETF", "treasury", "fixed", "income">>)),
            "bond", 95)
     ELSE IF \/ has(<<"tech", "etf">>) \/ has(<<"technology", "etf">>)
             \/ has(<<"sector", "etf">>) \/ has(<<"sector", "fund">>)
     THEN F("search_symbols",
            QueryArgs(Text(<<"technology", "ETF", "sector">>)), "sector", 95)
     ELSE IF \/ has(<<"etf">>) \/ has(<<"exchange", "traded", "fund">>)
             \/ has(<<"diversified", "investing">>) \/ has(<<"popular", "etf">>)
     THEN F("get_trending_etfs", CountArgs(count), "etf", 90)
     ELSE IF \/ has(<<"search">>) \/ has(<<"find">>) \/ has(<<"company">>)
             \/ has(<<"symbol">>) \/ has(<<"ticker">>)
     THEN F("search_symbols", QueryArgs(userQuery), "search", 80)
     ELSE IF has(<<"news">>) \/ has(<<"headlines">>)
     THEN F("get_news",
            [EmptyArgs EXCEPT !.has = {"symbol", "count"},
                              !.symbol = LLMExtractSymbol(userQuery),
                              !.count = count],
            "news", 80)
     ELSE IF \/ has(<<"insights">>) \/ has(<<"analysis">>)
             \/ has(<<"technical">>)
     THEN F("get_insights", sym, "insights", 80)
     ELSE IF has(<<"market">>) \/ has(<<"summary">>) \/ has(<<"overview">>)
     THEN F("get_market_summary", EmptyArgs, "market", 80)
     ELSE IF has(<<"recommendations">>) \/ has(<<"analyst">>)
     THEN F("get_recommendations", sym, "recommendations", 80)
     ELSE F("get_trending_stocks", CountArgs(count), "default", 60)

\* A value JSON.parse can put in a field: type is the JavaScript type (the
\* field being absent reads as undefined), n the value of a number in
\* hundredths and text the content of a string.
JsUndefined == [type |-> "undefined", n |-> 0, text |-> ""]
JsNull == [type |-> "null", n |-> 0, text |-> ""]
JsNumber(n) == [type |-> "number", n |-> n, text |-> ""]
JsString(text) == [type |-> "string", n |-> 0, text |-> text]
JsTrue == [type |-> "boolean", n |-> 100, text |-> ""]
JsObject == [type |-> "object", n |-> 0, text |-> ""]

\* ToBoolean, as the || operator applies it.
Truthy(v) ==
  CASE v.type \in {"undefined", "null"} -> FALSE
    [] v.type = "number" -> v.n # 0
    [] v.type = "string" -> v.text # ""
    [] OTHER -> TRUE

\* ToNumber, as Math.max applies it to its arguments.
ToNumber(v) ==
  CASE v.type = "number" -> Number(v.n)
    [] v.type = "null" -> Number(0)
    [] v.type = "boolean" -> Number(v.n)
    [] v.type = "string" /\ v.text = "" -> Number(0)
    [] v.type = "string" /\ v.text = "0.9" -> Number(90)
    [] OTHER -> NaN

\* What the model endpoint can answer to the generate call.  kind "json" is
\* a text whose repaired brace-delimited part parses to an object with the
\* fields below; "nojson" is a text without braces and "badjson" one whose
\* braces do not parse.
LlmJson(tool, parameters, confidence) ==
  [kind |-> "json", tool |-> tool, parameters |-> parameters,
   confidence |-> confidence]
LlmText(kind) ==
  [kind |-> kind, tool |-> "", parameters |-> EmptyArgs,
   confidence |-> JsUndefined]

Min(a, b) == IF a < b THEN a ELSE b
Max(a, b) == IF a > b THEN a ELSE b

\* Math.max and Math.min of two numbers: NaN when either is NaN.
MathMax(a, b) == IF a.nan \/ b.nan THEN NaN ELSE Number(Max(a.n, b.n))
MathMin(a, b) == IF a.nan \/ b.nan THEN NaN ELSE Number(Min(a.n, b.n))

\* Math.min(Math.max(result.confidence || 0.8, 0), 1).
Confidence(v) ==
  MathMin(MathMax(ToNumber(IF Truthy(v) THEN v ELSE JsNumber(80)),
                  Number(0)),
          Number(100))

\* AcceptOrFallback without the availableTools.has(result.tool) test.
AcceptUnvalidated(userQuery, answer, tools) ==
  IF answer.kind = "json"
  THEN Classification(answer.tool, answer.parameters, "llm", <<>>,
                      Confidence(answer.confidence), "llm")
  ELSE fallbackProcessing(userQuery)

\* The part of processQuery that follows the generate call: parse, validate
\* the tool against the processor's registry, accept or fall back.
AcceptOrFallback(userQuery, answer, tools) ==
  IF answer.kind = "json" /\ answer.tool \in tools
  THEN Classification(answer.tool, answer.parameters, "llm", <<>>,
                      Confidence(answer.confidence), "llm")
  ELSE fallbackProcessing(userQuery)

\* ------------------------------------------------------------ inputs
\* The texts a request can carry as its message.
Messages ==
  UNION {[pad : {FALSE}, words : [1..n -> Words]] : n \in 0..MaxQueryLen}

\* Tool names the model endpoint can put in its answer; "get_stock_price" is
\* not a tool of the server.
LlmTools ==
  {"get_quote", "get_financials", "get_screener", "search_symbols",
   "get_stock_price"}

LlmAnswers ==
  {LlmText("nojson"), LlmText("badjson")}
    \cup {LlmJson(t, a[1], a[2]) :
            t \in LlmTools,
            a \in {<<EmptyArgs, JsUndefined>>,
                   <<SymbolArgs("TSLA"), JsNumber(150)>>}}

\* The parsed array a search_symbols answer can carry.
SearchResultLists ==
  {<<>>,
   <<[symbol |-> "PLTR", quoteType |-> "EQUITY"]>>,
   <<[symbol |-> "PLTR-USD", quoteType |-> "CRYPTOCURRENCY"],
     [symbol |-> "PLTR", quoteType |-> "EQUITY"]>>,
   <<[symbol |-> "PLTRX", quoteType |-> "MUTUALFUND"]>>}

\* ------------------------------------------------------------- state
VARIABLES
  message,          \* req.body.message of the /analyze request
  availableTools,   \* keys of the bridge's availableTools map
  toolCapabilities, \* the bridge's toolCapabilities map (name -> tags)
  llmTools,         \* llmProcessor.availableTools
  pc,               \* where the /analyze handler is suspended
  classification,   \* llmResult
  llmAnswer,        \* the answer of the generate call, a local of processQuery
  llmCalls,         \* number of generate calls issued
  toolArgs,         \* toolArgs of the required-parameter pass
  paramIdx,         \* position of that pass in the required list
  mcpRequest,       \* mcpRequest.params
  response,         \* response of the execution phase
  lastError,        \* lastError of the execution phase
  fbIndex,          \* position of the fallback loop
  call,             \* the sendToMCP promise the handler awaits
  errorLines,       \* lines without a result seen by that call's listener
  calls,            \* the tools/call requests written to the server
  res,              \* the HTTP responses sent for the request
  startup,          \* where the discovery of startMCPServer's timer is
  startupCall,      \* the sendToMCP promise that discovery awaits
  outstanding,      \* requests written to the server and not yet answered
  listeners,        \* owners of the pending promises, as registered
  ready,            \* owners of settled promises whose continuation is due
  clientResult      \* what MCPClient.sendMessage returned to the chat app

vars ==
  <<message, availableTools, toolCapabilities, llmTools, pc, classification,
    llmAnswer, llmCalls, toolArgs, paramIdx, mcpRequest, response, lastError,
    fbIndex, call, errorLines, calls, res, startup, startupCall, outstanding,
    listeners, ready, clientResult>>

NoPayload == [isError |-> FALSE, tool |-> "", results |-> <<>>, tools |-> {}]
NoCall ==
  [state |-> "none", method |-> "", name |-> "", arguments |-> EmptyArgs,
   payload |-> NoPayload, error |-> ""]
NoResponse == [set |-> FALSE, payload |-> NoPayload]
NoClassification == Classification("", EmptyArgs, "", <<>>, Number(0), "")
NoAnswer == LlmText("none")
NoRequest == [name |-> "", arguments |-> EmptyArgs]
NoClientResult == [type |-> "", name |-> "", widgetType |-> ""]

Init ==
  /\ message \in Messages
  /\ availableTools = {}
  /\ toolCapabilities = <<>>
  /\ llmTools = {}
  /\ pc = "received"
  /\ classification = NoClassification
  /\ llmAnswer = NoAnswer
  /\ llmCalls = 0
  /\ toolArgs = EmptyArgs
  /\ paramIdx = 0
  /\ mcpRequest = NoRequest
  /\ response = NoResponse
  /\ lastError = ""
  /\ fbIndex = 0
  /\ call = NoCall
  /\ errorLines = 0
  /\ calls = <<>>
  /\ res = <<>>
  /\ startup = "armed"
  /\ startupCall = NoCall
  /\ outstanding = <<>>
  /\ listeners = <<>>
  /\ ready = <<>>
  /\ clientResult = NoClientResult

\* ------------------------------------------------------- sendToMCP
\* sendToMCP(message): registers the listeners and the timer and writes the
\* request; the promise is pending afterwards.
sendToMCP(method, name, arguments) ==
  [state |-> "pending", method |-> method, name |-> name,
   arguments |-> arguments, payload |-> NoPayload, error |-> ""]

\* Writing the request and registering the listener of owner's promise.
Send(owner, method, name) ==
  /\ outstanding' = Append(outstanding, [method |-> method, name |-> name])
  /\ listeners' = Append(listeners, owner)

\* No continuation of a settled promise is due and the handler is not
\* between processQuery's return and its own next step: the event loop can
\* take the next event.  The model follows the process up to the response
\* of the request.
Idle == ready = <<>> /\ pc \notin {"classified", "done"}

\* The continuation of owner's settled promise is the next to run.
Resume(owner) ==
  /\ ready # <<>>
  /\ Head(ready) = owner
  /\ ready' = Tail(ready)

\* The payloads the server can answer request q with: the tools of its
\* tools/list handler, or for tools/call the text of the handler's catch
\* ('Error: ...') or a tool result.
Payloads(q) ==
  IF q.method = "tools/list"
  THEN {[NoPayload EXCEPT !.tools = ServerToolSet]}
  ELSE {[NoPayload EXCEPT !.tool = q.name, !.isError = TRUE]}
         \cup (IF q.name = "search_symbols"
               THEN {[NoPayload EXCEPT !.tool = q.name, !.results = r] :
                       r \in SearchResultLists}
               ELSE {[NoPayload EXCEPT !.tool = q.name]})

\* The requests the server can answer next: it reads them in order and
\* answers tools/list at once, so nothing written after a tools/list is
\* answered before it; a tools/call takes as long as its handler takes.
Answerable(reqs) ==
  {i \in 1..Len(reqs) : \A j \in 1..(i - 1) : reqs[j].method # "tools/list"}

Without(reqs, i) == SubSeq(reqs, 1, i - 1) \o SubSeq(reqs, i + 1, Len(reqs))

\* The promise c after its listener saw a line carrying the result p.
Resolved(c, p) ==
  IF c.state = "pending"
  THEN [c EXCEPT !.state = "resolved", !.payload = p] ELSE c

\* The server answers a request and every registered onData listener sees
\* the line: it parses to an object with a result, so every pending promise
\* resolves with it, whichever request it answers.
MCPResult ==
  /\ Idle
  /\ \E i \in Answerable(outstanding) :
       \E p \in Payloads(outstanding[i]) :
         /\ outstanding' = Without(outstanding, i)
         /\ call' = Resolved(call, p)
         /\ startupCall' = Resolved(startupCall, p)
  /\ ready' = listeners
  /\ listeners' = <<>>
  /\ UNCHANGED <<message, availableTools, toolCapabilities, llmTools, pc,
                 classification, llmAnswer, llmCalls, toolArgs, paramIdx,
                 mcpRequest, response, lastError, fbIndex, errorLines, calls,
                 res, startup>>
  /\ UNCHANGED clientResult

\* onData sees a line without a result (a JSON-RPC error object): the line
\* is skipped and the promise stays pending.
MCPErrorLine ==
  /\ Idle
  /\ call.state = "pending"
  /\ errorLines < MaxErrorLines
  /\ errorLines' = errorLines + 1
  /\ UNCHANGED <<message, availableTools, toolCapabilities, llmTools, pc,
                 classification, llmAnswer, llmCalls, toolArgs, paramIdx,
                 mcpRequest, response, lastError, fbIndex, call, calls, res,
                 startup, startupCall, outstanding, listeners, ready>>
  /\ UNCHANGED clientResult

\* MCPTimeout with the test of responseReceived inverted: the timer rejects
\* only a promise that has a result already.
MCPTimeoutInverted ==
  /\ Idle
  /\ call.state = "resolved"
  /\ call' = [call EXCEPT !.state = "rejected",
                          !.error = "MCP server timeout"]
  /\ UNCHANGED <<message, availableTools, toolCapabilities, llmTools, pc,
                 classification, llmAnswer, llmCalls, toolArgs, paramIdx,
                 mcpRequest, response, lastError, fbIndex, errorLines, calls,
                 res, startup, startupCall, outstanding, listeners, ready>>
  /\ UNCHANGED clientResult

\* The 30 s timer of the handler's promise fires before a result was
\* received: the promise rejects.  Timers fire in the order they were set.
MCPTimeout ==
  /\ Idle
  /\ call.state = "pending"
  /\ Head(listeners) = "analyze"
  /\ call' = [call EXCEPT !.state = "rejected",
                          !.error = "MCP server timeout"]
  /\ listeners' = Tail(listeners)
  /\ ready' = <<"analyze">>
  /\ UNCHANGED <<message, availableTools, toolCapabilities, llmTools, pc,
                 classification, llmAnswer, llmCalls, toolArgs, paramIdx,
                 mcpRequest, response, lastError, fbIndex, errorLines, calls,
                 res, startup, startupCall, outstanding>>
  /\ UNCHANGED clientResult

\* ------------------------------------------------- /analyze helpers
\* message.replace(/search.*?(?:for|symbol|ticker|find)/i, '').trim():
\* drops the tokens from the first "search" to the next stop word.
IsSearchWord(w) == ToLowerCase(w) = "search"
IsStopWord(w) == ToLowerCase(w) \in {"for", "symbol", "ticker", "find"}
StripSearch(t) ==
  LET ws == t.words
      i == FirstIndex({k \in 1..Len(ws) : IsSearchWord(ws[k])})
      rest == IF i = 0 THEN <<>> ELSE SubSeq(ws, i + 1, Len(ws))
      j == FirstIndex({k \in 1..Len(rest) : IsStopWord(rest[k])})
  IN IF i = 0 \/ j = 0 THEN Trim(t)
     ELSE Text(SubSeq(ws, 1, i - 1) \o SubSeq(rest, j + 1, Len(rest)))

\* One iteration of the required-parameter pass of /analyze, given the
\* value es of extractSymbol(message) and the stripped search query: the
\* arguments after it, or the reason why the pass stops at this parameter.
ParamStepWith(es, searchQuery, tool, msg, args, param) ==
  IF ~Falsy(args, param)
  THEN [status |-> "next", args |-> args, query |-> EmptyText]
  ELSE IF param = "symbol"
  THEN IF es.search
       THEN [status |-> "search", args |-> args, query |-> es.query]
       ELSE IF es.symbol = ""
       THEN [status |-> "nosymbol", args |-> args, query |-> EmptyText]
       ELSE [status |-> "next",
             args |-> [args EXCEPT !.has = @ \cup {"symbol"},
                                   !.symbol = es.symbol],
             query |-> EmptyText]
  ELSE IF param = "count"
  THEN [status |-> "next",
        args |-> [args EXCEPT !.has = @ \cup {"count"},
                              !.count = FirstInt(msg, 5)],
        query |-> EmptyText]
  ELSE IF param = "query"
  THEN [status |-> "next",
        args |-> [args EXCEPT !.has = @ \cup {"query"},
                              !.query = IF tool = "search_symbols"
                                        THEN IF IsEmptyString(searchQuery)
                                             THEN Trim(msg) ELSE searchQuery
                                        ELSE msg],
        query |-> EmptyText]
  ELSE [status |-> "next", args |-> args, query |-> EmptyText]

ParamStep(tool, msg, args, param) ==
  CHOOSE step \in
    {ParamStepWith(es, searchQuery, tool, msg, args, param) :
       es \in {extractSymbol(msg)}, searchQuery \in {StripSearch(msg)}} : TRUE

\* The required-parameter pass of /analyze from position i on, up to its
\* end or to the await inside extractSymbol.
RECURSIVE ParamPass(_, _, _, _)
PassAfter(step, tool, msg, i) ==
  IF step.status = "next"
  THEN ParamPass(tool, msg, step.args, i + 1)
  ELSE [status |-> step.status, args |-> step.args, idx |-> i,
        query |-> step.query]

ParamPass(tool, msg, args, i) ==
  IF i > Len(Required(tool))
  THEN [status |-> "ready", args |-> args, idx |-> i, query |-> EmptyText]
  ELSE CHOOSE r \in
         {PassAfter(step, tool, msg, i) :
            step \in {ParamStep(tool, msg, args, Required(tool)[i])}} : TRUE

\* A JSON body sent with res.json: content stands for the text of the
\* content field, named for the tool or parameter that text names and
\* available for the tool names it lists; error is the top-level error
\* field and dataError is data.error ("" where the field is absent);
\* payload is the tool answer that data was taken from.
Result(status, content, named, listed, error, dataError, payload, wt, tool) ==
  [status |-> status, content |-> content, named |-> named,
   available |-> listed, error |-> error, dataError |-> dataError,
   payload |-> payload, widgetType |-> wt, toolUsed |-> tool]

ToolNotFound(tool, registry) ==
  Result(200, "Tool not found. Available tools:", tool, registry, "",
         "Tool not found", NoPayload, "error", "")
NoSymbolFound ==
  Result(200, "I couldn't identify a stock symbol in your message", "symbol",
         {}, "", "No symbol found", NoPayload, "error", "")
\* The catch block of /analyze.
Failed(error) ==
  Result(500, "Failed to analyze message", "", {}, error, "", NoPayload,
         "error", "")

\* WidgetTypeOf without the lookup in toolCapabilities.
WidgetTypeStatic(name, capabilities) == toolToWidgetMap(name)

\* The widget type /analyze derives from the name in mcpRequest.
WidgetTypeOf(name, capabilities) ==
  IF name \in DOMAIN capabilities
  THEN capabilities[name].category
  ELSE toolToWidgetMap(name)

\* The result formatting of /analyze for a response that was received.
Formatted(resp, req, tool, capabilities) ==
  Result(200, "Analysis completed for", "", {}, "", "", resp.payload,
         WidgetTypeOf(req.name, capabilities), tool)

Logged(role, name, arguments, registry) ==
  [role |-> role, name |-> name, arguments |-> arguments,
   registered |-> name \in registry, outcome |-> "pending"]

\* The outcome of the settled call, written to the last entry of the log.
Settled(log, c) ==
  [log EXCEPT ![Len(log)].outcome =
     IF c.state = "rejected" THEN "reject"
     ELSE IF c.payload.isError THEN "soft" ELSE "ok"]

\* /analyze after the required-parameter pass stopped with r: the primary
\* sendToMCP, the search of extractSymbol, or the symbol-not-found answer.
ContinueWith(r, tool, log) ==
  IF r.status = "ready"
  THEN /\ toolArgs' = r.args
       /\ paramIdx' = r.idx
       /\ mcpRequest' = [name |-> tool, arguments |-> r.args]
       /\ call' = sendToMCP("tools/call", tool, r.args)
       /\ Send("analyze", "tools/call", tool)
       /\ calls' = Append(log, Logged("primary", tool, r.args, availableTools))
       /\ errorLines' = 0
       /\ pc' = "primary"
       /\ UNCHANGED <<response, lastError, fbIndex, res>>
  ELSE IF r.status = "search"
  THEN /\ toolArgs' = r.args
       /\ paramIdx' = r.idx
       /\ call' = sendToMCP("tools/call", "search_symbols", QueryArgs(r.query))
       /\ Send("analyze", "tools/call", "search_symbols")
       /\ calls' = Append(log, Logged("resolver", "search_symbols",
                                      QueryArgs(r.query), availableTools))
       /\ errorLines' = 0
       /\ pc' = "resolving"
       /\ UNCHANGED <<mcpRequest, response, lastError, fbIndex, res>>
  ELSE /\ toolArgs' = r.args
       /\ paramIdx' = r.idx
       /\ res' = Append(res, NoSymbolFound)
       /\ pc' = "done"
       /\ call' = NoCall
       /\ calls' = log
       /\ UNCHANGED <<mcpRequest, response, lastError, fbIndex, errorLines,
                      outstanding, listeners>>

\* /analyze from position i of the required-parameter pass to its next
\* await or to its response.
ContinuePass(tool, args, i, log) ==
  \E r \in {ParamPass(tool, message, args, i)} : ContinueWith(r, tool, log)

\* processQuery returns llmResult c to the awaiting /analyze handler.
Return(c) ==
  /\ classification' = c
  /\ pc' = "classified"
  /\ UNCHANGED <<toolArgs, paramIdx, mcpRequest, response, lastError,
                 fbIndex, call, errorLines, calls, res, startup, startupCall,
                 outstanding, listeners, ready>>

\* The fallback loop of /analyze from position i on, with the response,
\* error and request left by the attempts before; log is the call log.
FallbackLoop(i, resp, err, req, log) ==
  LET fallbacks == Fallbacks(classification.tool)
  IN /\ response' = resp
     /\ lastError' = err
     /\ fbIndex' = i
     /\ UNCHANGED <<toolArgs, paramIdx>>
     /\ IF i <= Len(fallbacks)
        THEN LET fallbackTool == fallbacks[i]
                 arguments == IF fallbackTool = "search_symbols"
                              THEN QueryArgs(Trim(message))
                              ELSE req.arguments
             IN /\ mcpRequest' = [name |-> fallbackTool,
                                  arguments |-> arguments]
                /\ call' = sendToMCP("tools/call", fallbackTool, arguments)
                /\ Send("analyze", "tools/call", fallbackTool)
                /\ calls' = Append(log, Logged("fallback", fallbackTool,
                                               arguments, availableTools))
                /\ errorLines' = 0
                /\ pc' = "fallback"
                /\ UNCHANGED res
        ELSE /\ mcpRequest' = req
             /\ call' = NoCall
             /\ calls' = log
             /\ pc' = "done"
             /\ res' = Append(res,
                  IF ~resp.set THEN Failed(err)
                  ELSE Formatted(resp, req, classification.tool,
                                 toolCapabilities))
             /\ UNCHANGED <<errorLines, outstanding, listeners>>

\* /analyze with the response of a successful attempt: format and answer.
Succeed(resp, log) ==
  /\ response' = resp
  /\ calls' = log
  /\ call' = NoCall
  /\ pc' = "done"
  /\ res' = Append(res, Formatted(resp, mcpRequest, classification.tool,
                                  toolCapabilities))
  /\ UNCHANGED <<toolArgs, paramIdx, mcpRequest, lastError, fbIndex,
                 errorLines, outstanding, listeners>>

\* ----------------------------------------------------------- actions
\* /analyze up to its first await: the lazy discovery when the registry is
\* empty, else the status check of processQuery.
AnalyzeStart ==
  /\ Idle
  /\ pc = "received"
  /\ IF availableTools = {}
     THEN /\ call' = sendToMCP("tools/list", "", EmptyArgs)
          /\ Send("analyze", "tools/list", "")
          /\ pc' = "discovering"
     ELSE /\ pc' = "status"
          /\ UNCHANGED <<call, outstanding, listeners>>
  /\ errorLines' = 0
  /\ UNCHANGED <<message, availableTools, toolCapabilities, llmTools,
                 classification, llmAnswer, llmCalls, toolArgs, paramIdx,
                 mcpRequest, response, lastError, fbIndex, calls, res,
                 startup, startupCall, ready>>
  /\ UNCHANGED clientResult

\* discoverAvailableTools with its sendToMCP settled as c: clear the
\* registry, refill it from response.result?.tools || [] and initialize the
\* processor, or (on rejection) leave both as they are.
Discovered(c) ==
  IF c.state = "resolved"
  THEN /\ availableTools' = c.payload.tools
       /\ toolCapabilities' =
            [n \in c.payload.tools |-> extractToolCapabilities(n)]
       /\ llmTools' = c.payload.tools
  ELSE UNCHANGED <<availableTools, toolCapabilities, llmTools>>

\* The lazy discovery of /analyze after its sendToMCP settled.
discoverAvailableTools ==
  /\ pc = "discovering"
  /\ Resume("analyze")
  /\ Discovered(call)
  /\ call' = NoCall
  /\ pc' = "status"
  /\ UNCHANGED <<message, classification, llmAnswer, llmCalls, toolArgs,
                 paramIdx, mcpRequest, response, lastError, fbIndex,
                 errorLines, calls, res, startup, startupCall, outstanding,
                 listeners>>
  /\ UNCHANGED clientResult

\* The timer of startMCPServer fires: discoverAvailableTools is called and
\* awaits its sendToMCP.
StartupTimer ==
  /\ Idle
  /\ startup = "armed"
  /\ startup' = "discovering"
  /\ startupCall' = sendToMCP("tools/list", "", EmptyArgs)
  /\ Send("startup", "tools/list", "")
  /\ UNCHANGED <<message, availableTools, toolCapabilities, llmTools, pc,
                 classification, llmAnswer, llmCalls, toolArgs, paramIdx,
                 mcpRequest, response, lastError, fbIndex, call, errorLines,
                 calls, res, ready>>
  /\ UNCHANGED clientResult

\* The 30 s timer of the startup discovery's promise fires first.
StartupTimeout ==
  /\ Idle
  /\ startupCall.state = "pending"
  /\ Head(listeners) = "startup"
  /\ startupCall' = [startupCall EXCEPT !.state = "rejected",
                                        !.error = "MCP server timeout"]
  /\ listeners' = Tail(listeners)
  /\ ready' = <<"startup">>
  /\ UNCHANGED <<message, availableTools, toolCapabilities, llmTools, pc,
                 classification, llmAnswer, llmCalls, toolArgs, paramIdx,
                 mcpRequest, response, lastError, fbIndex, call, errorLines,
                 calls, res, startup, outstanding>>
  /\ UNCHANGED clientResult

\* discoverAvailableTools of the startup timer after its sendToMCP settled.
StartupDiscovered ==
  /\ startup = "discovering"
  /\ Resume("startup")
  /\ Discovered(startupCall)
  /\ startupCall' = NoCall
  /\ startup' = "done"
  /\ UNCHANGED <<message, pc, classification, llmAnswer, llmCalls, toolArgs,
                 paramIdx, mcpRequest, response, lastError, fbIndex, call,
                 errorLines, calls, res, outstanding, listeners>>
  /\ UNCHANGED clientResult

\* processQuery after checkOllamaStatus settled: not ready (no such model,
\* unreachable or timed out) goes to the rule-based classifier, ready
\* issues the generate call.
checkOllamaStatus ==
  /\ Idle
  /\ pc = "status"
  /\ \E isOllamaReady \in BOOLEAN :
       IF isOllamaReady
       THEN /\ pc' = "generating"
            /\ llmCalls' = llmCalls + 1
            /\ UNCHANGED <<classification, toolArgs, paramIdx, mcpRequest,
                           response, lastError, fbIndex, call, errorLines,
                           calls, res, startup, startupCall, outstanding,
                           listeners, ready>>
       ELSE /\ Return(fallbackProcessing(message))
            /\ UNCHANGED llmCalls
  /\ UNCHANGED <<message, availableTools, toolCapabilities, llmTools,
                 llmAnswer>>
  /\ UNCHANGED clientResult

\* processQuery after the generate call answered with one of answers.
Generated(answers) ==
  /\ Idle
  /\ pc = "generating"
  /\ \E answer \in answers :
       /\ llmAnswer' = answer
       /\ Return(AcceptOrFallback(message, answer, llmTools))
  /\ UNCHANGED <<message, availableTools, toolCapabilities, llmTools,
                 llmCalls>>
  /\ UNCHANGED clientResult

processQuery == Generated(LlmAnswers)

\* processQueryFailed issuing the generate call once more.
processQueryRetried ==
  /\ Idle
  /\ pc = "generating"
  /\ llmCalls < 2
  /\ llmCalls' = llmCalls + 1
  /\ UNCHANGED <<message, availableTools, toolCapabilities, llmTools, pc,
                 classification, llmAnswer, toolArgs, paramIdx, mcpRequest,
                 response, lastError, fbIndex, call, errorLines, calls, res,
                 startup, startupCall, outstanding, listeners, ready,
                 clientResult>>

\* processQuery after the generate call failed (timeout after 10 s or
\* connection error): the outer catch.
processQueryFailed ==
  /\ Idle
  /\ pc = "generating"
  /\ llmAnswer' = LlmText("failed")
  /\ Return(fallbackProcessing(message))
  /\ UNCHANGED <<message, availableTools, toolCapabilities, llmTools,
                 llmCalls>>
  /\ UNCHANGED clientResult

\* /analyze from the return of processQuery to its next await or to its
\* response: the tool lookup and the required-parameter pass.  The locals
\* of processQuery are gone.
AnalyzeClassified ==
  /\ pc = "classified"
  /\ IF classification.tool \notin availableTools
     THEN /\ res' = Append(res, ToolNotFound(classification.tool,
                                               availableTools))
          /\ pc' = "done"
          /\ UNCHANGED <<toolArgs, paramIdx, mcpRequest, response, lastError,
                         fbIndex, call, errorLines, calls, outstanding,
                         listeners>>
     ELSE ContinuePass(classification.tool, classification.parameters, 1,
                       calls)
  /\ llmAnswer' = NoAnswer
  /\ UNCHANGED <<message, availableTools, toolCapabilities, llmTools,
                 classification, llmCalls, startup, startupCall, ready>>
  /\ UNCHANGED clientResult

\* The symbol extractSymbol returns after its search call settled.
SearchedSymbol(c) ==
  IF c.state = "resolved" /\ ~c.payload.isError
  THEN SymbolFromSearch(c.payload.results)
  ELSE ""

\* extractSymbol after its search call settled, and /analyze from there on.
AfterSymbolSearch ==
  /\ pc = "resolving"
  /\ Resume("analyze")
  /\ IF SearchedSymbol(call) = ""
     THEN /\ res' = Append(res, NoSymbolFound)
          /\ pc' = "done"
          /\ call' = NoCall
          /\ calls' = Settled(calls, call)
          /\ UNCHANGED <<toolArgs, paramIdx, mcpRequest, response,
                         lastError, fbIndex, errorLines, outstanding,
                         listeners>>
     ELSE ContinuePass(classification.tool,
            [toolArgs EXCEPT !.has = @ \cup {"symbol"},
                             !.symbol = SearchedSymbol(call)],
            paramIdx + 1, Settled(calls, call))
  /\ UNCHANGED <<message, availableTools, toolCapabilities, llmTools,
                 classification, llmAnswer, llmCalls, startup, startupCall>>
  /\ UNCHANGED clientResult

\* /analyze after the primary sendToMCP settled.
AfterPrimary ==
  /\ pc = "primary"
  /\ Resume("analyze")
  /\ LET log == Settled(calls, call)
         resp == [set |-> TRUE, payload |-> call.payload]
     IN IF call.state = "resolved" /\ ~call.payload.isError
        THEN Succeed(resp, log)
        ELSE IF call.state = "resolved"
        THEN FallbackLoop(1, resp, "Tool returned error", mcpRequest, log)
        ELSE FallbackLoop(1, response, call.error, mcpRequest, log)
  /\ UNCHANGED <<message, availableTools, toolCapabilities, llmTools,
                 classification, llmAnswer, llmCalls, startup, startupCall>>
  /\ UNCHANGED clientResult

\* /analyze after the sendToMCP of a fallback tool settled.
AfterFallback ==
  /\ pc = "fallback"
  /\ Resume("analyze")
  /\ LET log == Settled(calls, call)
         resp == [set |-> TRUE, payload |-> call.payload]
     IN IF call.state = "resolved" /\ ~call.payload.isError
        THEN Succeed(resp, log)
        ELSE IF call.state = "resolved"
        THEN FallbackLoop(fbIndex + 1, resp, lastError, mcpRequest, log)
        ELSE FallbackLoop(fbIndex + 1, response, call.error, mcpRequest, log)
  /\ UNCHANGED <<message, availableTools, toolCapabilities, llmTools,
                 classification, llmAnswer, llmCalls, startup, startupCall>>
  /\ UNCHANGED clientResult

Next ==
  \/ AnalyzeStart
  \/ discoverAvailableTools
  \/ checkOllamaStatus
  \/ processQuery
  \/ processQueryFailed
  \/ AnalyzeClassified
  \/ AfterSymbolSearch
  \/ AfterPrimary
  \/ AfterFallback
  \/ StartupTimer
  \/ StartupTimeout
  \/ StartupDiscovered
  \/ MCPResult
  \/ MCPErrorLine
  \/ MCPTimeout

Spec == Init /\ [][Next]_vars

\* The steps the event loop of the bridge takes by itself: a handler
\* continuation whose await settled (the model endpoint calls settle within
\* their axios timeouts) and the timer of a pending sendToMCP.  Nothing
\* obliges the server to answer.
Progress ==
  \/ AnalyzeStart
  \/ discoverAvailableTools
  \/ checkOllamaStatus
  \/ processQuery
  \/ processQueryFailed
  \/ AnalyzeClassified
  \/ AfterSymbolSearch
  \/ AfterPrimary
  \/ AfterFallback
  \/ MCPTimeout
  \/ StartupTimer
  \/ StartupTimeout
  \/ StartupDiscovered

Fairness == WF_vars(Progress)

\* The requests the liveness specification starts from.
InitLive == Init /\ Len(message.words) <= MaxLiveQueryLen

SpecLive == InitLive /\ [][Next]_vars /\ Fairness

\* ------------------------------------------- processQuery on its own
\* processQuery called for a request that arrives after the startup
\* discovery filled the registry, over a wider range of queries and of
\* answers of the model endpoint.
MaxClassifierQueryLen == 4

ClassifierWords ==
  {"MSFT", "Apple", "compare", "top", "dividend", "5", "10"}

ClassifierMessages ==
  UNION {[pad : {FALSE}, words : [1..n -> ClassifierWords]] :
           n \in 0..MaxClassifierQueryLen}

\* The confidence fields an answer of the model endpoint can carry.
Confidences ==
  {JsUndefined, JsNull, JsNumber(-50), JsNumber(0), JsNumber(50),
   JsNumber(100), JsNumber(150), JsString("high"), JsString("0.9"),
   JsTrue, JsObject}

ClassifierAnswers ==
  {LlmText("nojson"), LlmText("badjson")}
    \cup {LlmJson("get_quote", EmptyArgs, c) : c \in Confidences}
    \cup {LlmJson("get_stock_price", EmptyArgs, JsNumber(50))}

\* The state in which processQuery is called for a request with one of
\* messages, after the startup discovery filled the registry.
InitWith(messages) ==
  /\ message \in messages
  /\ availableTools = ServerToolSet
  /\ toolCapabilities = [n \in ServerToolSet |-> extractToolCapabilities(n)]
  /\ llmTools = ServerToolSet
  /\ pc = "status"
  /\ classification = NoClassification
  /\ llmAnswer = NoAnswer
  /\ llmCalls = 0
  /\ toolArgs = EmptyArgs
  /\ paramIdx = 0
  /\ mcpRequest = NoRequest
  /\ response = NoResponse
  /\ lastError = ""
  /\ fbIndex = 0
  /\ call = NoCall
  /\ errorLines = 0
  /\ calls = <<>>
  /\ res = <<>>
  /\ startup = "done"
  /\ startupCall = NoCall
  /\ outstanding = <<>>
  /\ listeners = <<>>
  /\ ready = <<>>
  /\ clientResult = NoClientResult

InitClassifier == InitWith(ClassifierMessages)

processQueryAnswered == Generated(ClassifierAnswers)

NextClassifier ==
  \/ checkOllamaStatus
  \/ processQueryAnswered
  \/ processQueryFailed

SpecClassifier == InitClassifier /\ [][NextClassifier]_vars

\* ------------------------------------- processQuery, comparisons
\* processQuery for queries about several companies.
MaxCompareQueryLen == 4

CompareWords == {"compare", "vs", "Apple", "and", "Microsoft", "MSFT"}

CompareMessages ==
  UNION {[pad : {FALSE}, words : [1..n -> CompareWords]] :
           n \in 0..MaxCompareQueryLen}

InitCompare == InitWith(CompareMessages)

SpecCompare == InitCompare /\ [][NextClassifier]_vars

\* Longest query of the rule-order specification, in tokens.
MaxRuleQueryLen == 2

\* The rule-based classifier over one keyword of every rule.
RuleWords ==
  {"compare", "top", "price", "chart", "trending", "bond", "etf", "find",
   "news", "technical", "market", "analyst", "10"}
RuleMessages ==
  UNION {[pad : {FALSE}, words : [1..n -> RuleWords]] :
           n \in 0..MaxRuleQueryLen}
InitRules == InitWith(RuleMessages)
SpecRules == InitRules /\ [][NextClassifier]_vars

\* ------------------------------- discovery against any tool list
\* The loop of discoverAvailableTools over the tool list of an arbitrary
\* server.  A tool name, and a description, is given by the set of tested
\* substrings it includes.
MaxTools == 1

ToolNameShapes ==
  SUBSET {"trending", "quote", "price", "historical", "chart", "insights",
          "search", "etf", "gainer"}

DescriptionShapes == {{}, {"quote"}, {"trending", "price"}, {"gainer"}}

InitCapabilities ==
  /\ message = EmptyText
  /\ availableTools = {}
  /\ toolCapabilities = <<>>
  /\ llmTools = {}
  /\ pc = "discovering"
  /\ classification = NoClassification
  /\ llmAnswer = NoAnswer
  /\ llmCalls = 0
  /\ toolArgs = EmptyArgs
  /\ paramIdx = 0
  /\ mcpRequest = NoRequest
  /\ response = NoResponse
  /\ lastError = ""
  /\ fbIndex = 0
  /\ call = NoCall
  /\ errorLines = 0
  /\ calls = <<>>
  /\ res = <<>>
  /\ startup = "done"
  /\ startupCall = NoCall
  /\ outstanding = <<>>
  /\ listeners = <<>>
  /\ ready = <<>>
  /\ clientResult = NoClientResult

\* One iteration of the loop: the tool and its capabilities are cached.
CacheTool ==
  /\ Cardinality(availableTools) < MaxTools
  /\ \E name \in ToolNameShapes \ availableTools,
        description \in DescriptionShapes :
       /\ availableTools' = availableTools \cup {name}
       /\ toolCapabilities' =
            [n \in availableTools \cup {name} |->
               IF n = name THEN CapabilitiesOf(name, description)
               ELSE toolCapabilities[n]]
  /\ UNCHANGED <<message, llmTools, pc, classification, llmAnswer, llmCalls,
                 toolArgs, paramIdx, mcpRequest, response, lastError,
                 fbIndex, call, errorLines, calls, res, startup, startupCall,
                 outstanding, listeners, ready>>
  /\ UNCHANGED clientResult

NextCapabilities == CacheTool

SpecCapabilities == InitCapabilities /\ [][NextCapabilities]_vars

\* ------------------------------------------------- chat client
\* MCPClient of the client app: sendMessage answers from its own tables
\* and never calls the bridge.  message is the text typed into the chat.
MaxClientQueryLen == 3

ClientWords ==
  {"Analyze", "stock", "Compare", "AAPL", "market", "overview", "historical",
   "data", "portfolio", "analysis", "quote"}

ClientMessages ==
  UNION {[pad : {FALSE}, words : [1..n -> ClientWords]] :
           n \in 0..MaxClientQueryLen}

\* MCPClient.determineRequestType(message), without the args.
determineRequestType(msg) ==
  LET has(kw) == Includes(msg, kw)
      R(type, name) == [type |-> type, name |-> name]
  IN IF has(<<"analyze">>) /\ has(<<"stock">>)
     THEN R("prompt", "analyze_stock")
     ELSE IF has(<<"compare">>) /\ has(<<"stock">>)
     THEN R("prompt", "compare_stocks")
     ELSE IF has(<<"market", "overview">>) \/ has(<<"market", "summary">>)
     THEN R("prompt", "market_overview")
     ELSE IF has(<<"find", "stock">>) \/ has(<<"search", "stock">>)
     THEN R("prompt", "find_stocks")
     ELSE IF has(<<"portfolio">>) /\ has(<<"analysis">>)
     THEN R("prompt", "portfolio_analysis")
     ELSE IF has(<<"news">>) /\ has(<<"stock">>)
     THEN R("prompt", "stock_news")
     ELSE IF has(<<"quote">>) \/ has(<<"price">>)
     THEN R("tool", "get_quote")
     ELSE IF has(<<"historical">>) \/ has(<<"chart">>)
     THEN R("tool", "get_historical_data")
     ELSE IF has(<<"search">>) \/ has(<<"find">>)
     THEN R("tool", "search_symbols")
     ELSE R("prompt", "analyze_stock")

\* widgetType of getMockPromptResponse(promptName, ...).
getMockPromptResponse(promptName) ==
  CASE promptName = "analyze_stock" -> "stock_analysis"
    [] promptName = "compare_stocks" -> "stock_comparison"
    [] promptName = "market_overview" -> "market_overview"
    [] OTHER -> "general"

\* widgetType of getMockToolResponse(toolName, ...).
getMockToolResponse(toolName) ==
  CASE toolName = "get_quote" -> "stock_quote"
    [] toolName = "get_historical_data" -> "historical_chart"
    [] OTHER -> "general"

\* MCPClient.sendMessage(message): the request type and the widget type of
\* the object it returns.
MessageReply(msg) ==
  LET requestType == determineRequestType(msg)
  IN [type |-> requestType.type, name |-> requestType.name,
      widgetType |-> IF requestType.type = "prompt"
                     THEN getMockPromptResponse(requestType.name)
                     ELSE getMockToolResponse(requestType.name)]

InitClient ==
  /\ message \in ClientMessages
  /\ availableTools = {}
  /\ toolCapabilities = <<>>
  /\ llmTools = {}
  /\ pc = "received"
  /\ classification = NoClassification
  /\ llmAnswer = NoAnswer
  /\ llmCalls = 0
  /\ toolArgs = EmptyArgs
  /\ paramIdx = 0
  /\ mcpRequest = NoRequest
  /\ response = NoResponse
  /\ lastError = ""
  /\ fbIndex = 0
  /\ call = NoCall
  /\ errorLines = 0
  /\ calls = <<>>
  /\ res = <<>>
  /\ startup = "armed"
  /\ startupCall = NoCall
  /\ outstanding = <<>>
  /\ listeners = <<>>
  /\ ready = <<>>
  /\ clientResult = NoClientResult

sendMessage ==
  /\ clientResult = NoClientResult
  /\ clientResult' = MessageReply(message)
  /\ UNCHANGED <<message, availableTools, toolCapabilities, llmTools, pc,
                 classification, llmAnswer, llmCalls, toolArgs, paramIdx,
                 mcpRequest, response, lastError, fbIndex, call, errorLines,
                 calls, res, startup, startupCall, outstanding, listeners,
                 ready>>

NextClient == sendMessage

SpecClient == InitClient /\ [][NextClient]_vars

\* ------------------------------------------------------------ claims
CallsOf(role) == SelectSeq(calls, LAMBDA c : c.role = role)
Failure == {"soft", "reject"}
Done == pc = "done" /\ Len(res) = 1
PrimaryFailed ==
  Len(CallsOf("primary")) = 1 /\ CallsOf("primary")[1].outcome \in Failure

\* The table of alternates as the claims state it.
DeclaredAlternates(tool) ==
  CASE tool = "get_screener" -> <<"get_trending_stocks", "search_symbols">>
    [] tool = "get_trending_stocks" -> <<"search_symbols">>
    [] tool = "get_quote" -> <<"search_symbols">>
    [] tool = "search_symbols" -> <<"get_trending_stocks">>
    [] OTHER -> <<>>

\* C1: when the primary invocation fails (transport error or 'Error:'
\* marker), the alternates of the chosen tool are invoked in the declared
\* order of the table, only after a failed primary, and no alternate is
\* invoked after the first alternate that succeeded; the chain is walked to
\* its end unless an alternate succeeds.
C1_FallbacksInDeclaredOrder ==
  LET fb == CallsOf("fallback")
      decl == DeclaredAlternates(classification.tool)
  IN /\ Len(fb) <= Len(decl)
     /\ \A k \in 1..Len(fb) : fb[k].name = decl[k]
     /\ fb # <<>> => PrimaryFailed
     /\ \A k \in 1..(Len(fb) - 1) : fb[k].outcome \in Failure
     /\ (Done /\ PrimaryFailed) =>
          \/ Len(fb) = Len(decl)
          \/ fb # <<>> /\ fb[Len(fb)].outcome = "ok"

\* C1 witness: get_screener failed, its first alternate failed and its second
\* alternate succeeded.
C1_Witness ==
  /\ Done /\ PrimaryFailed
  /\ classification.tool = "get_screener"
  /\ Len(CallsOf("fallback")) = 2
  /\ CallsOf("fallback")[1].outcome \in Failure
  /\ CallsOf("fallback")[2].outcome = "ok"

\* Every invocation of the execution phase failed and the chain is exhausted.
AllAttemptsFailed ==
  /\ Done /\ PrimaryFailed
  /\ Len(CallsOf("fallback")) = Len(DeclaredAlternates(classification.tool))
  /\ \A k \in 1..Len(CallsOf("fallback")) :
       CallsOf("fallback")[k].outcome \in Failure

\* C2: if the primary invocation and every alternate fail (transport error
\* or 'Error:' marker), the result carries the last failure and its
\* widgetType is 'error'.
C2_AllFailedIsError ==
  AllAttemptsFailed =>
    /\ res[1].widgetType = "error"
    /\ res[1].error = lastError

\* C3: if the primary invocation fails and the chosen tool has no alternate
\* in the table, the result has widgetType 'error' and carries the
\* underlying error, for a transport error and for a soft error alike.
C3_NoAlternateFailureIsTerminal ==
  (Done /\ PrimaryFailed /\ DeclaredAlternates(classification.tool) = <<>>) =>
    /\ res[1].widgetType = "error"
    /\ res[1].error # ""

\* C4: if the model's answer parses to a tool name that is absent from the
\* registry, processQuery returns exactly the classification that
\* fallbackProcessing computes for the query, so nothing of the model's
\* answer is in it.
C4_UnknownToolFallsBack ==
  (pc = "classified" /\ llmAnswer.kind = "json"
     /\ llmAnswer.tool \notin llmTools) =>
    classification = fallbackProcessing(message)

\* C4 witness: the registry is filled, the model named get_stock_price with
\* a symbol and a confidence, and processQuery has returned.
C4_Witness ==
  /\ pc = "classified"
  /\ llmTools = ServerToolSet
  /\ llmAnswer = LlmJson("get_stock_price", SymbolArgs("TSLA"), JsNumber(150))
  /\ classification.source = "enhanced_fallback"

\* C5: every tools/call issued as the primary invocation or as an alternate
\* names a tool that is in the registry at that moment.
C5_InvokedToolsAreRegistered ==
  \A i \in 1..Len(calls) :
    calls[i].role \in {"primary", "fallback"} => calls[i].registered

\* No tier resolves a symbol from the message: no uppercase token and no
\* company name of any of the dictionaries.
Unresolvable(msg) ==
  /\ FirstUpper(msg) = ""
  /\ extractCompanyNames(msg) = <<>>
  /\ CompaniesIn(msg, LLMCompanyMap, 1) = <<>>
  /\ CompaniesIn(msg, CompareCompanyMap, 1) = <<>>

\* C6: for a query from which no symbol can be resolved, neither the
\* rule-based classification nor a tool invocation made for it carries a
\* symbol, and a tool that requires a symbol is not invoked.
C6_NoDefaultSymbol ==
  (Unresolvable(message) /\ classification.source = "enhanced_fallback") =>
    /\ "symbol" \notin classification.parameters.has
    /\ \A i \in 1..Len(calls) :
         /\ "symbol" \notin calls[i].arguments.has
         /\ \A k \in 1..Len(Required(calls[i].name)) :
              Required(calls[i].name)[k] # "symbol"

\* C7: for every name of the required list of the tool, a primary invocation
\* is made only with a value for that name; a name still without a value
\* after the resolver pass ends the request without invocation.
C7_RequiredParametersPresent ==
  \A i \in 1..Len(calls) :
    calls[i].role = "primary" =>
      \A k \in 1..Len(Required(calls[i].name)) :
        ~Falsy(calls[i].arguments, Required(calls[i].name)[k])

\* No invocation of the execution phase succeeded, or the resolver failed.
RequestFailed ==
  /\ Done
  /\ \A i \in 1..Len(calls) :
       calls[i].role \in {"primary", "fallback"} => calls[i].outcome \in Failure

\* C8: every request produces exactly one result, and a resolver or
\* orchestrator failure is a result with widgetType 'error'.
C8_OneResultErrorOnFailure ==
  /\ Len(res) <= 1
  /\ pc = "done" => Len(res) = 1
  /\ RequestFailed => res[1].widgetType = "error"

\* C9: every /analyze request eventually returns a result, also when the
\* server never answers a call or answers only with error objects.
C9_EventuallyAnswers == <>Done

\* C9 witness: the request was answered although its last sendToMCP saw
\* only an error object and was rejected by its timer.
C9_Witness ==
  /\ Done
  /\ calls # <<>>
  /\ calls[Len(calls)].outcome = "reject"
  /\ errorLines > 0

\* The kind of error a result reports to its consumer.
ErrorKind(r) ==
  IF r.status = 500 THEN "Failed to analyze message" ELSE r.dataError

\* C10: when discovery yields no tools, the request ends with an error whose
\* kind differs from the per-query errors (tool not found, symbol not found,
\* tool execution failure), and no tool is invoked.
C10_RegistryEmptyIsDistinct ==
  (Done /\ availableTools = {}) =>
    /\ res[1].widgetType = "error"
    /\ ErrorKind(res[1]) \notin
         {"Tool not found", "No symbol found", "Failed to analyze message"}
    /\ calls = <<>>

\* processQuery has returned its classification to /analyze.
Classified == pc = "classified"

\* The answer of the generate call was accepted by processQuery.
Accepted == llmAnswer.kind = "json" /\ llmAnswer.tool \in llmTools

InUnitInterval(c) == ~c.nan /\ 0 <= c.n /\ c.n <= 100

\* C11: every classification processQuery returns has a confidence in
\* [0,1], whatever confidence field the answer of the model carries
\* (out of range, absent or not a number).
C11_ConfidenceInUnitInterval ==
  Classified => InUnitInterval(classification.confidence)

\* The clamp the claims state: min(max(v,0),1) in hundredths.
Clamped(v) == IF v < 0 THEN 0 ELSE IF v > 100 THEN 100 ELSE v

\* C12: an accepted classification has confidence 0.8 when the answer
\* carries no confidence, and the clamped value min(max(v,0),1) when it
\* carries the number v, so that 0 and 1 are returned unchanged.
C12_SuppliedConfidenceClamped ==
  (Classified /\ Accepted) =>
    /\ llmAnswer.confidence.type = "undefined" =>
         classification.confidence = Number(80)
    /\ llmAnswer.confidence.type = "number" =>
         classification.confidence = Number(Clamped(llmAnswer.confidence.n))

\* C13: the source tag of a classification is 'llm' when the answer of the
\* model was accepted and 'fallback' when the rule-based classifier
\* produced it, and never anything else.
C13_SourceIsLlmOrFallback ==
  Classified =>
    /\ classification.source \in {"llm", "fallback"}
    /\ classification.source = "llm" <=> (Accepted /\ llmCalls > 0)

\* The ways the classifier fails: the status check fails ("none": no
\* generate call was made), the endpoint is unreachable or times out
\* ("failed"), it answers text without JSON or with invalid JSON, or with
\* JSON that names a tool the processor does not know.
ClassifierFailed ==
  \/ llmAnswer.kind \in {"none", "failed", "nojson", "badjson"}
  \/ llmAnswer.kind = "json" /\ llmAnswer.tool \notin llmTools

\* C14: on every failure of the classifier processQuery returns (it does
\* not throw) the classification of the rule-based classifier for the
\* query, with the source tag of that classifier.
C14_FailuresFallBack ==
  (Classified /\ ClassifierFailed) =>
    /\ classification = fallbackProcessing(message)
    /\ classification.tool # ""
    /\ classification.source # "llm"

\* C14 witness: the model answered invalid JSON and the request was
\* classified by the dividend rule of the rule-based classifier.
C14_Witness ==
  /\ Classified
  /\ llmAnswer.kind = "badjson"
  /\ classification.tool = "get_screener"
  /\ classification.source = "enhanced_fallback"

\* The tickers companyMap of the bridge holds for the company names that
\* occur in the message (as one token or as two adjacent tokens).
DictionaryTickers(t) ==
  LET lw == LowerWords(t.words)
  IN {companyMap(SubSeq(lw, i, j)) :
        i \in 1..Len(lw), j \in 1..Len(lw)} \ {""}

\* The required-parameter pass of /analyze has called extractSymbol: the
\* classified tool requires a symbol and the classification gave none.
ExtractSymbolCalled ==
  /\ paramIdx > 0
  /\ Falsy(classification.parameters, "symbol")
  /\ \E k \in 1..Len(Required(classification.tool)) :
       Required(classification.tool)[k] = "symbol"

\* C15: for a query that contains a company name of the bridge's
\* company-to-ticker dictionary and no uppercase ticker token, extractSymbol
\* returns the dictionary ticker of that company and no search_symbols call
\* is issued to resolve the symbol.
C15_KnownCompanyNoSearch ==
  (/\ ExtractSymbolCalled
   /\ DictionaryTickers(message) # {}
   /\ FirstUpper(message) = "") =>
    /\ CallsOf("resolver") = <<>>
    /\ toolArgs.symbol \in DictionaryTickers(message)

\* The explicit 1-5 letter uppercase tokens of a text.
UpperTokens(t) ==
  {UpperMatch(t.words[k]) : k \in 1..Len(t.words)} \ {""}

\* C16: for a query with an explicit 1-5 letter uppercase token, the
\* bridge's extractSymbol, the processor's extractSymbol and the
\* representative symbol of the comparison rule of fallbackProcessing each
\* return an explicit token of the query, not a symbol mapped from a company
\* name.
C16_ExplicitTokenPreferred ==
  (Classified /\ UpperTokens(message) # {}) =>
    /\ extractSymbol(message).symbol \in UpperTokens(message)
    /\ LLMExtractSymbol(message) \in UpperTokens(message)
    /\ (classification.source # "llm"
          /\ classification.reasoning.text = "comparison") =>
         classification.parameters.symbol \in UpperTokens(message)

\* The request was answered with a formatted tool result.
Analysed == Done /\ res[1].content = "Analysis completed for"

\* The name of the tool the last tools/call of the request invoked.
LastInvoked == calls[Len(calls)].name

C18_AlternateArgumentsAdapted ==
  \A i \in 1..Len(calls) :
    calls[i].role = "fallback" =>
      /\ calls[i].arguments.has \subseteq Properties(calls[i].name)
      /\ calls[i].name = "search_symbols" =>
           calls[i].arguments = QueryArgs(message)

\* The precedence of the category substrings as the claim lists it, with
\* the category each stands for.
Precedence ==
  << <<"trending", "trending">>, <<"quote", "quotes">>, <<"price", "quotes">>,
     <<"historical", "historical_chart">>, <<"chart", "chart_data">>,
     <<"insights", "insights">>, <<"search", "search">>, <<"etf", "etfs">>,
     <<"gainer", "gainers">> >>

\* C19: a tool whose name contains 'trending' gets category 'trending'
\* whatever its description and whatever other category substrings its
\* name contains; in general the category is that of the first substring of
\* the precedence order that the name contains, 'general' when it contains
\* none.
C19_CategoryByNamePrecedence ==
  \A name \in DOMAIN toolCapabilities :
    LET hits == {k \in 1..Len(Precedence) : Precedence[k][1] \in name}
        category == toolCapabilities[name].category
    IN /\ "trending" \in name => category = "trending"
       /\ hits = {} => category = "general"
       /\ hits # {} =>
            category = Precedence[CHOOSE k \in hits :
                                    \A j \in hits : k <= j][2]

\* C19 witness: a cached tool whose name contains trending, quote and etf
\* has category 'trending'.
C19_Witness ==
  \E name \in DOMAIN toolCapabilities :
    /\ {"trending", "quote", "etf"} \subseteq name
    /\ toolCapabilities[name].category = "trending"

\* The query matches the superlative/listing rule, has dividend wording
\* and does not match the comparison rule.
DividendListing(t) ==
  /\ \E kw \in {<<"top">>, <<"best">>, <<"highest">>, <<"most">>, <<"list">>,
                 <<"show", "me">>} : Includes(t, kw)
  /\ Includes(t, <<"dividend">>)
  /\ ~\E kw \in {<<"compare">>, <<"vs">>, <<"versus">>, <<"comparison">>,
                  <<"side", "by", "side">>} : Includes(t, kw)

\* The positions of the tokens of a text that hold an integer literal.
IntegerPositions(t) == {k \in 1..Len(t.words) : IntOf(t.words[k]) # -1}

\* C20: with the classifier unavailable, a query that matches the listing
\* rule with dividend wording and not the comparison rule is classified to
\* get_screener with criteria 'dividend_yield', count the first integer
\* literal of the query (5 when it has none) and confidence 0.9.
C20_DividendListingScreener ==
  (Classified /\ llmAnswer.kind \in {"none", "failed"}
     /\ DividendListing(message)) =>
    /\ classification.tool = "get_screener"
    /\ "criteria" \in classification.parameters.has
    /\ classification.parameters.criteria = "dividend_yield"
    /\ "count" \in classification.parameters.has
    /\ \A k \in IntegerPositions(message) :
         (\A j \in IntegerPositions(message) : k <= j) =>
           classification.parameters.count = IntOf(message.words[k])
    /\ IntegerPositions(message) = {} =>
         classification.parameters.count = 5
    /\ classification.confidence = Number(90)

\* C20 witness: 'top 10 5 dividend' with the status check of the classifier
\* failing is classified to get_screener with count 10.
C20_Witness ==
  /\ Classified
  /\ llmAnswer.kind = "none"
  /\ message.words = <<"top", "10", "5", "dividend">>
  /\ classification.tool = "get_screener"
  /\ classification.parameters.count = 10

\* The classifier gave no answer: its status check failed ("none") or its
\* generate call failed or timed out.
Unavailable == llmAnswer.kind \in {"none", "failed"}

\* The tickers the comparison rule extracts from a text: those of the
\* companies of its dictionary that the text names and the 3-5 letter
\* uppercase tokens.
Extracted(t) ==
  {CompareCompanyMap[i][2] :
     i \in {k \in 1..Len(CompareCompanyMap) :
              Includes(t, CompareCompanyMap[k][1])}}
    \cup ({UpperMatch3(t.words[k]) : k \in 1..Len(t.words)} \ {""})

\* C21: with the classifier unavailable, a query with comparison phrasing
\* is classified to get_quote with the first extracted symbol as its one
\* symbol, confidence 0.85 and a reasoning that names every extracted
\* symbol; 'compare Apple and Microsoft' gives AAPL and names AAPL, MSFT.
C21_ComparisonToQuote ==
  (/\ Classified
   /\ Unavailable
   /\ \E kw \in {<<"compare">>, <<"vs">>, <<"versus">>} :
        Includes(message, kw)) =>
    LET named == classification.reasoning.symbols
    IN /\ classification.tool = "get_quote"
       /\ classification.parameters.has = {"symbol"}
       /\ classification.confidence = Number(85)
       /\ {named[i] : i \in 1..Len(named)} = Extracted(message)
       /\ named # <<>> => classification.parameters.symbol = named[1]
       /\ message.words = <<"compare", "Apple", "and", "Microsoft">> =>
            /\ classification.parameters.symbol = "AAPL"
            /\ named = <<"AAPL", "MSFT">>

\* C21 witness: 'compare Apple and Microsoft' classified by the rule-based
\* classifier after the status check failed.
C21_Witness ==
  /\ Classified
  /\ llmAnswer.kind = "none"
  /\ message.words = <<"compare", "Apple", "and", "Microsoft">>
  /\ classification.parameters.symbol = "AAPL"
  /\ classification.reasoning.symbols = <<"AAPL", "MSFT">>

\* The widget types the README documents for the message patterns that
\* occur in a text.
Documented(t) ==
  (IF Includes(t, <<"analyze">>) /\ Includes(t, <<"stock">>)
   THEN {"stock_analysis"} ELSE {})
  \cup (IF Includes(t, <<"compare">>) THEN {"stock_comparison"} ELSE {})
  \cup (IF Includes(t, <<"market", "overview">>)
        THEN {"market_overview"} ELSE {})
  \cup (IF Includes(t, <<"historical", "data">>)
        THEN {"historical_chart"} ELSE {})
  \cup (IF Includes(t, <<"portfolio", "analysis">>)
        THEN {"portfolio_analysis"} ELSE {})
  \cup (IF Includes(t, <<"quote">>) THEN {"stock_quote"} ELSE {})

\* C22: sendMessage answers a message that matches one documented pattern
\* with the widget type documented for that pattern: stock analysis,
\* stock comparison, market overview, stock chart, portfolio analysis or
\* stock quote.
C22_DocumentedWidgetType ==
  (clientResult # NoClientResult /\ Cardinality(Documented(message)) = 1) =>
    clientResult.widgetType \in Documented(message)

\* A step in which a discovery whose tools/list call resolved clears and
\* refills the registry.
RegistryWrite ==
  \/ pc = "discovering" /\ pc' = "status" /\ call.state = "resolved"
  \/ /\ startup = "discovering" /\ startup' = "done"
     /\ startupCall.state = "resolved"

\* C23: the registry is written by one discovery only: a discovery clears
\* and refills it only while it is still empty, under every interleaving
\* of the startup timer and the lazy discovery of /analyze.
C23_RegistryWrittenOnce ==
  [][RegistryWrite => availableTools = {} /\ toolCapabilities = <<>>]_vars

\* The invocations of the execution phase: the primary one and those of
\* the fallback chain.
Attempts == SelectSeq(calls, LAMBDA c : c.role \in {"primary", "fallback"})

\* C24: within one request the primary invocation and the invocations of
\* the fallback chain name pairwise distinct tools, so no call is repeated,
\* and there are at most 1 plus the length of the chain of them.
C24_AttemptsDistinctAndBounded ==
  /\ \A i, j \in 1..Len(Attempts) :
       Attempts[i].name = Attempts[j].name => i = j
  /\ Len(Attempts) <= 1 + Len(Fallbacks(classification.tool))
  /\ Len(CallsOf("primary")) <= 1

\* C24 witness: get_screener and both of its alternates were invoked, once
\* each, and all three failed.
C24_Witness ==
  /\ Done
  /\ Len(Attempts) = 3
  /\ Attempts[1].name = "get_screener"
  /\ \A i \in 1..3 : Attempts[i].outcome \in Failure

\* C25: the alternates /analyze walks for a primary tool do not contain
\* that tool: no invocation of the fallback chain names the classified
\* tool.
C25_ChainExcludesPrimary ==
  /\ \A k \in 1..Len(Fallbacks(classification.tool)) :
       Fallbacks(classification.tool)[k] # classification.tool
  /\ \A i \in 1..Len(calls) :
       calls[i].role = "fallback" => calls[i].name # classification.tool

\* C25 witness: search_symbols failed as the primary tool and its alternate
\* get_trending_stocks was invoked.
C25_Witness ==
  /\ classification.tool = "search_symbols"
  /\ PrimaryFailed
  /\ Len(CallsOf("fallback")) = 1
  /\ CallsOf("fallback")[1].name = "get_trending_stocks"

\* C26: processQuery issues at most one generate call per query; when that
\* call times out or the connection fails it returns the classification of
\* the rule-based classifier without another call.
C26_OneGenerateCall ==
  /\ llmCalls <= 1
  /\ llmAnswer.kind = "failed" =>
       /\ Classified
       /\ llmCalls = 1
       /\ classification = fallbackProcessing(message)

\* C26 witness: the generate call failed and the query was classified by
\* the default rule of the rule-based classifier.
C26_Witness ==
  /\ Classified
  /\ llmAnswer.kind = "failed"
  /\ llmCalls = 1
  /\ classification.reasoning.text = "default"

\* C27: a request makes at most one resolver call, a search_symbols call
\* that extractSymbol issues only when the message has no uppercase token,
\* the dictionary does not hold the extracted company name and the registry
\* holds the search tool.
C27_OneResolverCall ==
  /\ Len(CallsOf("resolver")) <= 1
  /\ \A i \in 1..Len(calls) :
       calls[i].role = "resolver" =>
         /\ calls[i].name = "search_symbols"
         /\ calls[i].registered
         /\ FirstUpper(message) = ""
         /\ extractCompanyNames(message) # <<>>
         /\ MappedFirst(extractCompanyNames(message)) = ""
         /\ calls[i].arguments =
              QueryArgs(Text(extractCompanyNames(message)[1]))

\* C27 witness: the one resolver call of the request found a symbol and
\* the primary tool was invoked after it.
C27_Witness ==
  /\ Len(calls) = 2
  /\ calls[1].role = "resolver"
  /\ calls[1].outcome = "ok"
  /\ calls[2].role = "primary"
  /\ calls[2].arguments.symbol = "PLTR"

\* The rules of fallbackProcessing in the documented order, each with the
\* keywords that select it and the tools it can return.
RuleOrder ==
  << <<{<<"compare">>, <<"vs">>, <<"versus">>, <<"comparison">>,
        <<"side", "by", "side">>}, {"get_quote"}>>,
     <<{<<"top">>, <<"best">>, <<"highest">>, <<"most">>, <<"list">>,
        <<"show", "me">>}, {"get_screener", "get_trending_stocks"}>>,
     <<{<<"quote">>, <<"price">>, <<"stock">>, <<"current">>, <<"latest">>},
       {"get_quote"}>>,
     <<{<<"historical">>, <<"chart">>, <<"history">>, <<"past">>,
        <<"performance">>}, {"get_historical_data"}>>,
     <<{<<"trending">>, <<"top">>, <<"popular">>, <<"most", "active">>,
        <<"hot">>}, {"get_trending_stocks"}>>,
     <<{<<"reit", "etf">>, <<"real", "estate", "etf">>,
        <<"real", "estate", "investment", "trust">>, <<"reit", "fund">>,
        <<"bond", "etf">>, <<"bond", "fund">>, <<"fixed", "income", "etf">>,
        <<"treasury", "etf">>, <<"tech", "etf">>, <<"technology", "etf">>,
        <<"sector", "etf">>, <<"sector", "fund">>}, {"search_symbols"}>>,
     <<{<<"etf">>, <<"exchange", "traded", "fund">>,
        <<"diversified", "investing">>, <<"popular", "etf">>},
       {"get_trending_etfs"}>>,
     <<{<<"search">>, <<"find">>, <<"company">>, <<"symbol">>, <<"ticker">>},
       {"search_symbols"}>>,
     <<{<<"news">>, <<"headlines">>}, {"get_news"}>>,
     <<{<<"insights">>, <<"analysis">>, <<"technical">>}, {"get_insights"}>>,
     <<{<<"market">>, <<"summary">>, <<"overview">>},
       {"get_market_summary"}>>,
     <<{<<"recommendations">>, <<"analyst">>}, {"get_recommendations"}>> >>

\* The rules of RuleOrder one of whose keywords occurs in the query.
Matching(t) ==
  {i \in 1..Len(RuleOrder) : \E kw \in RuleOrder[i][1] : Includes(t, kw)}

\* The earliest of the rules matching the query.
Earliest(t) == CHOOSE i \in Matching(t) : \A j \in Matching(t) : i <= j

\* The rule-based classifier classified the query.
RuleBased == Classified /\ classification.source = "enhanced_fallback"

\* C28 as stated: the rule-based classifier returns the classification of
\* the earliest documented rule whose keywords occur in the query, and when
\* no rule matches the trending tool with the default count 5 and
\* confidence 0.6.
C28_FirstMatchWinsDefaultCount ==
  RuleBased =>
    IF Matching(message) # {}
    THEN classification.tool \in RuleOrder[Earliest(message)][2]
    ELSE /\ classification.tool = "get_trending_stocks"
         /\ classification.parameters = CountArgs(5)
         /\ classification.confidence = Number(60)

\* C28, amended: the rule-based classifier returns the classification of
\* the earliest documented rule whose keywords occur in the query, and when
\* no rule matches the trending tool with the count mentioned in the query
\* (its first integer, 5 when it has none) and confidence 0.6.
C28_FirstMatchWinsMentionedCount ==
  RuleBased =>
    IF Matching(message) # {}
    THEN classification.tool \in RuleOrder[Earliest(message)][2]
    ELSE /\ classification.tool = "get_trending_stocks"
         /\ classification.parameters = CountArgs(FirstInt(message, 5))
         /\ classification.confidence = Number(60)

\* C28 witness: a query matching the news rule and the quote rule was
\* classified by the earlier of the two.
C28_Witness ==
  /\ RuleBased
  /\ Matching(message) = {3, 9}
  /\ classification.tool = "get_quote"

\* The resolved promise c holds the response to its own request: the tool
\* list for tools/list, the result of the tool it named for tools/call.
OwnResponse(c) ==
  c.state = "resolved" =>
    IF c.method = "tools/list"
    THEN c.payload.tool = "" /\ c.payload.tools = ServerToolSet
    ELSE c.payload.tool = c.name

\* C29: when the request's sendToMCP call and the startup discovery call
\* are in flight together, each resolves with the response to its own
\* request.
C29_OwnResponseWhenConcurrent ==
  OwnResponse(call) /\ OwnResponse(startupCall)

\* C30: in every non-error /analyze result whose data is the payload of a
\* tool, that tool is the one named in toolUsed and widgetType is the
\* category of that tool, also when an alternate of the fallback chain
\* produced the result.
C30_ResultOfOneInvocation ==
  Analysed /\ ~res[1].payload.isError /\ res[1].payload.tool \in ServerToolSet =>
    /\ res[1].payload.tool = res[1].toolUsed
    /\ res[1].widgetType \in
         {extractToolCapabilities(res[1].toolUsed).category,
          toolToWidgetMap(res[1].toolUsed)}

====
